---- MODULE Spec2Model ----
(***************************************************************************)
(* Model of s3-filesystem (src/src/fs.rs): OpenOptions::open_s3 and        *)
(* OpenOptions::write_s3 over a local filesystem and a remote S3 client.   *)
(*                                                                         *)
(* Strings are sequences of one-character strings.  "X" stands for a byte  *)
(* sequence that is not valid UTF-8.  A resolved path is the sequence of   *)
(* its components; an absolute path starts with the component RootDir.     *)
(* File contents are sequences of bytes.                                   *)
(***************************************************************************)
EXTENDS Integers, Sequences, FiniteSets, TLC

\* ------------------------------------------------------------------ bounds
MaxLen == 2        \* longest buffer / remote body, in bytes
MaxObjs == 4       \* most objects in the bucket of a listing behaviour
MaxBuilds == 4     \* most calls of a builder chain, new included

Bytes == {1, 2}
Procs == {1, 2}

Contents == UNION {[1..n -> Bytes] : n \in 0..MaxLen}
Chunks == Contents \ {<<>>}

\* The path arguments handed to open_s3 / write_s3.
Keys == { <<"a", "/", "b">>,          \* a/b
          <<"a", "\\", "b">>,         \* a\b
          <<"/", "a">>,               \* /a   (begins with a separator)
          <<"a", "/", "X">> }         \* a/<non UTF-8 bytes>
Buckets == { <<"b">>, <<"c">> }
Mounts == { <<"m">> }

RootDir == <<"/">>

\* The path arguments handed to walkdir: the whole bucket, a folder, and a
\* prefix that is not valid UTF-8.
Prefixes == { <<>>, <<"a", "/">>, <<"X">> }

\* The objects a bucket can hold.  An object of the response may come
\* without a key (Object::key() is an Option).
KeyOrder ==
    << <<"a", "/">>, <<"a", "/", "b">>, <<"a", "/", "c">>, <<"c">> >>
ObjKeys == {KeyOrder[n] : n \in 1..Len(KeyOrder)}
Sizes == {0, 1}
Objects ==
    [has_key : {TRUE}, key : ObjKeys, size : Sizes]
    \cup [has_key : {FALSE}, key : {<<>>}, size : Sizes]

\* The number of objects one list_objects_v2 response carries at most; the
\* request of walkdir sets neither max_keys nor a continuation token.
MaxKeys == 3

\* ------------------------------------------------------- std::path model
\* std::path::is_separator: '/' everywhere, and also '\' on Windows.
IsSep(c, windows) == c = "/" \/ (windows /\ c = "\\")

HasRoot(s, windows) == Len(s) > 0 /\ IsSep(s[1], windows)

\* PathBuf::join / push: a rooted argument replaces the whole path,
\* anything else is appended after a separator.
join(base, p, windows) ==
    IF HasRoot(p, windows) THEN p
    ELSE IF base = <<>> THEN p
    ELSE IF IsSep(base[Len(base)], windows) THEN base \o p
    ELSE base \o <<"/">> \o p

RECURSIVE Comp(_, _, _, _, _)
Comp(s, windows, i, cur, acc) ==
    IF i > Len(s)
    THEN (IF cur = <<>> THEN acc ELSE Append(acc, cur))
    ELSE IF IsSep(s[i], windows)
         THEN Comp(s, windows, i + 1, <<>>,
                   IF cur = <<>> THEN acc ELSE Append(acc, cur))
         ELSE Comp(s, windows, i + 1, Append(cur, s[i]), acc)

\* Path::components: the file a textual path names.
Components(s, windows) ==
    Comp(s, windows, 1, <<>>, IF HasRoot(s, windows) THEN <<RootDir>> ELSE <<>>)

\* Path::parent of a resolved path (None is modelled as <<>>).
parent(cs) == IF Len(cs) = 0 THEN <<>> ELSE SubSeq(cs, 1, Len(cs) - 1)

\* Path::to_str: Some iff the path is valid UTF-8.
to_str_ok(p) == \A i \in 1..Len(p) : p[i] # "X"

\* str::replace("\\", "/")
replace(p) == [i \in 1..Len(p) |-> IF p[i] = "\\" THEN "/" ELSE p[i]]

\* self.mount_path.join(&self.bucket).join(&path)
full_path(mount_path, bucket, path, windows) ==
    join(join(mount_path, bucket, windows), path, windows)

\* ------------------------------------------------------ filesystem model
\* std::fs::create_dir_all: every ancestor directory of cs, and cs itself.
DirsOf(cs) == { SubSeq(cs, 1, n) : n \in 1..Len(cs) }

\* Writing data at byte offset off of a file that is NOT truncated.
Overwrite(content, off, data) ==
    LET n == IF Len(content) > off + Len(data) THEN Len(content)
             ELSE off + Len(data)
    IN [i \in 1..n |-> IF i > off /\ i <= off + Len(data)
                       THEN data[i - off] ELSE content[i]]

Prefix(s, n) == SubSeq(s, 1, n)

\* ------------------------------------------------------------------ state
VARIABLES
    windows,   \* target platform of the build: TRUE = Windows, FALSE = Unix
    object,    \* the object a behaviour follows: the OpenOptions' bucket and
               \* mount_path, and the path argument of the calls
    files,     \* local disk: resolved path of each existing file -> content
    dirs,      \* local disk: resolved paths of the existing directories
    pending,   \* writes handed to tokio's blocking pool, not yet on disk
    call,      \* per caller: the call in progress or its returned result
    lastWrite, \* history: the last successful write_s3, while only cache-hit
               \* opens of the same file followed it
    concurrent,\* TRUE when the callers' calls may overlap
    remote,    \* the remote object's body, when the behaviour fixes it
    store,     \* the bucket's objects, in the remote store's listing order
    opts,      \* the OpenOptions value under construction by the builder
    builds,    \* history: the builder calls made so far
    complete   \* history: the contents successfully fetched or written at
               \* the object's mirror path

\* What no call changes.
env == <<windows, object, concurrent, remote, opts, builds>>

vars == <<env, files, dirs, pending, call, lastWrite, store, complete>>

NoWrite == [valid |-> FALSE, path |-> <<>>, buf |-> <<>>]

Idle == [op |-> "none", pc |-> "idle", bucket |-> <<>>, mount_path |-> <<>>,
         force_download |-> FALSE, path |-> <<>>,
         full_data_path |-> <<>>, s3_data_path |-> <<>>, buf |-> <<>>,
         existed |-> FALSE, hit |-> FALSE, pre |-> <<>>,
         pos |-> 0, fetched |-> <<>>, length |-> 0, putBody |-> <<>>,
         gets |-> 0, puts |-> 0, remoteFailed |-> FALSE, result |-> "none",
         lists |-> 0, prefix |-> <<>>, contents |-> <<>>, entries |-> <<>>,
         overlap |-> FALSE, handle |-> <<>>, wrote |-> 0]

\* The remote object's body is whatever each fetch answers.
Unknown == [known |-> FALSE, body |-> <<>>]

\* No OpenOptions value is under construction.
NoOpts == [built |-> FALSE, s3_client |-> "", bucket |-> <<>>,
           mount_path |-> <<>>, force_download |-> FALSE]

\* What an earlier run can have left on disk: nothing, or MaxLen bytes under
\* the object's mirror path.
Stale == [i \in 1..MaxLen |-> 1]

Init ==
    /\ windows \in BOOLEAN
    /\ object \in [bucket : Buckets, mount_path : Mounts, path : Keys]
    /\ LET fp == Components(full_path(object.mount_path, object.bucket,
                                      object.path, windows), windows)
       IN \/ /\ files = << >>
             /\ dirs = {<<RootDir>>}
          \/ /\ to_str_ok(object.path)
             /\ files = [q \in {fp} |-> Stale]
             /\ dirs = {<<RootDir>>} \cup DirsOf(parent(fp))
    /\ pending = {}
    /\ call = [p \in Procs |-> Idle]
    /\ lastWrite = NoWrite
    /\ concurrent = FALSE
    /\ remote = Unknown
    /\ store = <<>>
    /\ opts = NoOpts
    /\ builds = <<>>
    /\ complete = {files[fp] : fp \in DOMAIN files}

\* (mutant) the existence test always answers "absent".
exists_never(fp) == FALSE

\* std::fs::metadata(&full_data_path).is_ok()
exists(fp) == fp \in DOMAIN files \/ fp \in dirs

Content(fp) == IF fp \in DOMAIN files THEN files[fp] ELSE <<>>

\* The file a call works on.
Target(c) == Components(c.full_data_path, windows)

\* Each caller issues one call.  Unless the behaviour is concurrent, one
\* caller follows the other: a call starts when the earlier callers have
\* returned and the blocking pool has drained.  Concurrent callers start in
\* the order of their numbers and overlap freely from there.
CanBegin(p) ==
    /\ call[p].pc = "idle"
    /\ IF concurrent
       THEN \A q \in Procs : q < p => call[q].pc # "idle"
       ELSE /\ \A q \in Procs : q < p => call[q].pc = "done"
            /\ pending = {}

\* The history kept for the write-through round trip.
NextLastWrite(c) ==
    IF c.op = "write" /\ c.result = "Ok"
    THEN [valid |-> TRUE, path |-> Target(c), buf |-> c.buf]
    ELSE IF c.op = "open" /\ c.hit /\ c.result = "Ok"
            /\ lastWrite.valid /\ lastWrite.path = Target(c)
    THEN lastWrite
    ELSE NoWrite

\* The history of the complete contents: what a successful download
\* fetched and what a successful write_s3 was given.
NextComplete(c) ==
    IF c.op = "write" /\ c.result = "Ok" THEN complete \cup {c.buf}
    ELSE IF c.op = "open" /\ ~c.hit /\ c.result = "Ok"
    THEN complete \cup {c.fetched}
    ELSE complete

\* The call of p returns: its record becomes the returned result.
Return(p, c, res) ==
    LET d == [c EXCEPT !.pc = "done", !.result = res,
                       !.handle = Content(Target(c))]
    IN /\ call' = [call EXCEPT ![p] = d]
       /\ lastWrite' = NextLastWrite(d)
       /\ complete' = NextComplete(d)

\* A call of p starts as c: the results returned earlier have been consumed.
Consumed == [Idle EXCEPT !.pc = "done"]

Running(q) == call[q].pc \notin {"idle", "done"}

Started(p, c) ==
    [q \in Procs |->
        IF q = p
        THEN [c EXCEPT !.overlap = \E r \in Procs \ {p} : Running(r)]
        ELSE IF call[q].pc = "done" /\ ~concurrent THEN Consumed
        ELSE call[q]]

\* A call of p that returns before its first suspension.
StartReturn(p, c, res) ==
    LET d == [c EXCEPT !.pc = "done", !.result = res,
                       !.handle = Content(Target(c))]
    IN /\ call' = Started(p, d)
       /\ lastWrite' = NextLastWrite(d)
       /\ complete' = NextComplete(d)

\* tokio::fs::OpenOptions::new().read(true).write(true).create(true).open():
\* creates an empty file when there is none, and leaves an existing file's
\* content alone (truncate is not set).
OpenCreated(fp) ==
    IF fp \in DOMAIN files THEN files
    ELSE [q \in DOMAIN files \cup {fp} |-> IF q = fp THEN <<>> ELSE files[q]]

\* (mutant) the cleanup leaves the file where it is.
Removed_kept(fp) == files

\* tokio::fs::remove_file: the path is unlinked; writes still in flight on
\* the unlinked file never reach the path again.
Removed(fp) == [q \in DOMAIN files \ {fp} |-> files[q]]

Unlinked(fp) == {w \in pending : w.path # fp}

\* ------------------------------------------------------------- open_s3
\* Lines 143-164, which run without suspension: the two paths, the
\* existence test, and on the download path the parent directories.
OpenS3Start(p) ==
    /\ CanBegin(p)
    /\ \E force \in BOOLEAN, dirOk \in BOOLEAN :
        LET bucket == object.bucket
            mount_path == object.mount_path
            path == object.path
            full == full_path(mount_path, bucket, path, windows)
            fp == Components(full, windows)
            c0 == [Idle EXCEPT !.op = "open", !.bucket = bucket,
                     !.mount_path = mount_path, !.force_download = force,
                     !.path = path, !.full_data_path = full,
                     !.existed = fp \in DOMAIN files]
        IN IF ~to_str_ok(path)
           THEN /\ StartReturn(p, c0, "InvalidInput")
                /\ UNCHANGED <<files, dirs, pending>>
           ELSE LET c1 == [c0 EXCEPT !.s3_data_path = replace(path)]
                IN IF exists(fp) /\ ~force
                   THEN /\ call' = Started(p, [c1 EXCEPT !.pc = "hit",
                                        !.hit = TRUE, !.pre = Content(fp)])
                        /\ UNCHANGED <<files, dirs, pending, lastWrite, complete>>
                   ELSE IF dirOk
                   THEN /\ dirs' = dirs \cup DirsOf(parent(fp))
                        /\ call' = Started(p, [c1 EXCEPT !.pc = "create"])
                        /\ UNCHANGED <<files, pending, lastWrite, complete>>
                   ELSE /\ StartReturn(p, c1, "Io")
                        /\ UNCHANGED <<files, dirs, pending>>
    /\ UNCHANGED <<env, store>>

\* Lines 155-158: the cache hit opens the existing file read-only.
OpenS3Hit(p) ==
    /\ call[p].op = "open" /\ call[p].pc = "hit"
    /\ IF Target(call[p]) \in DOMAIN files
       THEN Return(p, [call[p] EXCEPT !.pos = 0], "Ok")
       ELSE Return(p, call[p], "Io")
    /\ UNCHANGED <<env, store, files, dirs, pending>>

\* Lines 166-171: open or create the local file for read and write.
OpenS3Create(p) ==
    /\ call[p].op = "open" /\ call[p].pc = "create"
    /\ LET fp == Target(call[p])
       IN IF fp \in dirs \/ parent(fp) \notin dirs \cup {<<>>}
          THEN /\ Return(p, call[p], "Io")
               /\ UNCHANGED files
          ELSE /\ files' = OpenCreated(fp)
               /\ call' = [call EXCEPT ![p].pc = "fetch", ![p].pos = 0]
               /\ UNCHANGED <<lastWrite, complete>>
    /\ UNCHANGED <<env, store, dirs, pending>>

\* Lines 173-181: one get_object request; it answers with a body or fails.
OpenS3Fetch(p) ==
    /\ call[p].op = "open" /\ call[p].pc = "fetch"
    /\ \E ok \in BOOLEAN :
        call' = [call EXCEPT ![p].gets = @ + 1,
                             ![p].remoteFailed = ~ok,
                             ![p].pc = IF ok THEN "body" ELSE "remove"]
    /\ UNCHANGED <<env, store, files, dirs, pending, lastWrite, complete>>

\* The chunks received so far are the beginning of the remote object's body.
Delivers(got) ==
    Len(got) <= Len(remote.body) /\ SubSeq(remote.body, 1, Len(got)) = got

\* What file.write(&bytes) puts on disk: AsyncWriteExt::write may accept
\* fewer bytes than it is given, and line 184 drops the count it returns.
Written(bytes, n) == Prefix(bytes, n)

\* Lines 183-185, a chunk arrives: it is written at the handle's cursor.
OpenS3Chunk(p) ==
    /\ call[p].op = "open" /\ call[p].pc = "body"
    /\ \E bytes \in Chunks, n \in 1..MaxLen :
        /\ Len(call[p].fetched) + Len(bytes) <= MaxLen
        /\ n <= Len(bytes)
        /\ remote.known => Delivers(call[p].fetched \o bytes)
        /\ LET fp == Target(call[p])
               w == Written(bytes, n)
           IN /\ files' = IF fp \in DOMAIN files
                          THEN [files EXCEPT ![fp] = Overwrite(@, call[p].pos, w)]
                          ELSE files
              /\ call' = [call EXCEPT ![p].fetched = @ \o bytes,
                                      ![p].pos = @ + Len(w),
                                      ![p].wrote = @ + Len(w)]
    /\ UNCHANGED <<env, store, dirs, pending, lastWrite, complete>>

\* Line 183, the body ends: the loop is left for the seek.
OpenS3BodyEnd(p) ==
    /\ call[p].op = "open" /\ call[p].pc = "body"
    /\ remote.known => call[p].fetched = remote.body
    /\ call' = [call EXCEPT ![p].pc = "seek"]
    /\ UNCHANGED <<env, store, files, dirs, pending, lastWrite, complete>>

\* Line 183, try_next fails: `?` returns the ByteStream error at once.
OpenS3BodyErr(p) ==
    /\ call[p].op = "open" /\ call[p].pc = "body"
    /\ Return(p, call[p], "ByteStream")
    /\ UNCHANGED <<env, store, files, dirs, pending>>

\* Lines 187-189: rewind the handle and return it.
OpenS3Seek(p) ==
    /\ call[p].op = "open" /\ call[p].pc = "seek"
    /\ Return(p, [call[p] EXCEPT !.pos = 0], "Ok")
    /\ UNCHANGED <<env, store, files, dirs, pending>>

\* Lines 177-180: the request failed; remove the local file, then return
\* the S3 error.
OpenS3Remove(p) ==
    /\ call[p].op = "open" /\ call[p].pc = "remove"
    /\ files' = Removed(Target(call[p]))
    /\ pending' = Unlinked(Target(call[p]))
    /\ Return(p, call[p], "S3")
    /\ UNCHANGED <<env, store, dirs>>

\* ------------------------------------------------------------- write_s3
\* Lines 232-242, which run without suspension: the local path, the parent
\* directories, and only then the key's conversion to text.
WriteS3Start(p) ==
    /\ CanBegin(p)
    /\ \E buf \in Contents, dirOk \in BOOLEAN :
        LET bucket == object.bucket
            mount_path == object.mount_path
            path == object.path
            full == full_path(mount_path, bucket, path, windows)
            fp == Components(full, windows)
            c0 == [Idle EXCEPT !.op = "write", !.bucket = bucket,
                     !.mount_path = mount_path,
                     !.path = path, !.full_data_path = full, !.buf = buf,
                     !.existed = fp \in DOMAIN files]
        IN IF ~dirOk
           THEN /\ StartReturn(p, c0, "Io")
                /\ UNCHANGED dirs
           ELSE /\ dirs' = dirs \cup DirsOf(parent(fp))
                /\ IF ~to_str_ok(path)
                   THEN StartReturn(p, c0, "InvalidInput")
                   ELSE /\ call' = Started(p, [c0 EXCEPT !.pc = "create",
                                        !.s3_data_path = replace(path)])
                        /\ UNCHANGED <<lastWrite, complete>>
    /\ UNCHANGED <<env, store, files, pending>>

\* Lines 244-249: open or create the local file for read and write.
WriteS3Create(p) ==
    /\ call[p].op = "write" /\ call[p].pc = "create"
    /\ LET fp == Target(call[p])
       IN IF fp \in dirs \/ parent(fp) \notin dirs \cup {<<>>}
          THEN /\ Return(p, call[p], "Io")
               /\ UNCHANGED files
          ELSE /\ files' = OpenCreated(fp)
               /\ call' = [call EXCEPT ![p].pc = "write_all", ![p].pos = 0]
               /\ UNCHANGED <<lastWrite, complete>>
    /\ UNCHANGED <<env, store, dirs, pending>>

\* The writes file.write_all(buf) leaves in flight when it returns: tokio's
\* File copies the bytes to its buffer and writes them from a blocking
\* task; line 251 is followed by no flush.
InFlight(fp, buf) == IF buf = <<>> THEN {} ELSE {[path |-> fp, data |-> buf]}

\* Line 251: file.write_all(buf) at the cursor of the fresh handle.
WriteS3WriteAll(p) ==
    /\ call[p].op = "write" /\ call[p].pc = "write_all"
    /\ pending' = pending \cup InFlight(Target(call[p]), call[p].buf)
    /\ call' = [call EXCEPT ![p].pc = "from_path", ![p].pos = Len(call[p].buf)]
    /\ UNCHANGED <<env, store, files, dirs, lastWrite, complete>>

\* The blocking task of an earlier write_all runs: the bytes reach the file
\* at offset 0, over whatever the file holds.
Flush ==
    /\ \E w \in pending :
        /\ pending' = pending \ {w}
        /\ files' = IF w.path \in DOMAIN files
                    THEN [files EXCEPT ![w.path] = Overwrite(@, 0, w.data)]
                    ELSE files
    /\ UNCHANGED <<env, store, dirs, call, lastWrite, complete>>

\* Line 253: ByteStream::from_path takes the body's length from the file's
\* size on disk now; the body itself is read when the request is sent.
WriteS3FromPath(p) ==
    /\ call[p].op = "write" /\ call[p].pc = "from_path"
    /\ IF Target(call[p]) \in DOMAIN files
       THEN /\ call' = [call EXCEPT ![p].pc = "put",
                           ![p].length = Len(files[Target(call[p])])]
            /\ UNCHANGED <<lastWrite, complete>>
       ELSE Return(p, call[p], "ByteStream")
    /\ UNCHANGED <<env, store, files, dirs, pending>>

\* The body put_object ships: the first `length` bytes of the file on disk.
Body(fp, length) ==
    IF Len(Content(fp)) < length THEN Content(fp) ELSE Prefix(Content(fp), length)

\* put_object has overwrite semantics: the object of that key is replaced,
\* or a new object joins the bucket.
StorePut(objs, key, size) ==
    IF \E i \in 1..Len(objs) : objs[i].has_key /\ objs[i].key = key
    THEN [i \in 1..Len(objs) |->
            IF objs[i].has_key /\ objs[i].key = key
            THEN [objs[i] EXCEPT !.size = size] ELSE objs[i]]
    ELSE Append(objs, [has_key |-> TRUE, key |-> key, size |-> size])

\* An upload that is tried a second time when the first request fails.
WriteS3Put_retry(p) ==
    /\ call[p].op = "write" /\ call[p].pc = "put"
    /\ \E ok \in BOOLEAN :
        LET c == [call[p] EXCEPT !.puts = @ + 1, !.remoteFailed = ~ok,
                    !.putBody = Body(Target(call[p]), call[p].length)]
        IN IF ok
           THEN /\ Return(p, c, "Ok")
                /\ store' = StorePut(store, c.s3_data_path, Len(c.putBody))
           ELSE /\ call' = [call EXCEPT ![p] =
                               [c EXCEPT !.pc = IF c.puts < 2 THEN "put"
                                                ELSE "remove"]]
                /\ UNCHANGED <<lastWrite, complete, store>>
    /\ UNCHANGED <<env, files, dirs, pending>>

\* Lines 255-267: one put_object request; it succeeds or fails.
WriteS3Put(p) ==
    /\ call[p].op = "write" /\ call[p].pc = "put"
    /\ \E ok \in BOOLEAN :
        LET c == [call[p] EXCEPT !.puts = @ + 1, !.remoteFailed = ~ok,
                    !.putBody = Body(Target(call[p]), call[p].length)]
        IN IF ok
           THEN /\ Return(p, c, "Ok")
                /\ store' = StorePut(store, c.s3_data_path, Len(c.putBody))
           ELSE /\ call' = [call EXCEPT ![p] = [c EXCEPT !.pc = "remove"]]
                /\ UNCHANGED <<lastWrite, complete, store>>
    /\ UNCHANGED <<env, files, dirs, pending>>

\* Lines 263-266: the request failed; remove the local file, then return
\* the S3 error.
WriteS3Remove(p) ==
    /\ call[p].op = "write" /\ call[p].pc = "remove"
    /\ files' = Removed(Target(call[p]))
    /\ pending' = Unlinked(Target(call[p]))
    /\ Return(p, call[p], "S3")
    /\ UNCHANGED <<env, store, dirs>>

\* --------------------------------------------------------------- walkdir
StartsWith(key, prefix) ==
    Len(prefix) <= Len(key) /\ SubSeq(key, 1, Len(prefix)) = prefix

\* The objects of the bucket the prefix selects, in listing order.
Listed(objs, prefix) ==
    SelectSeq(objs, LAMBDA o : ~o.has_key \/ StartsWith(o.key, prefix))

\* objects_res.contents(): the remote store answers with one page.
FirstPage(objs) ==
    IF Len(objs) <= MaxKeys THEN objs ELSE SubSeq(objs, 1, MaxKeys)

\* filepath.ends_with("/")
ends_with_slash(filepath) ==
    Len(filepath) > 0 /\ filepath[Len(filepath)] = "/"

\* Lines 332-336: the DirEntry pushed for an object with a key.
DirEntry(s3_object) ==
    [path |-> s3_object.key, size |-> s3_object.size,
     folder |-> ends_with_slash(s3_object.key)]

\* A loop that does not skip the objects without a key.
RECURSIVE Collect_unfiltered(_, _, _)
Collect_unfiltered(contents, i, data_to_return) ==
    IF i > Len(contents) THEN data_to_return
    ELSE Collect_unfiltered(contents, i + 1,
                            Append(data_to_return, DirEntry(contents[i])))

\* Lines 324-337: the loop over the response's contents.
RECURSIVE Collect(_, _, _)
Collect(contents, i, data_to_return) ==
    IF i > Len(contents) THEN data_to_return
    ELSE IF ~contents[i].has_key
    THEN Collect(contents, i + 1, data_to_return)
    ELSE Collect(contents, i + 1,
                 Append(data_to_return, DirEntry(contents[i])))

\* Lines 306-317: the request is built; a prefix that is not UTF-8 is
\* refused before anything is sent.
WalkdirStart(p) ==
    /\ CanBegin(p)
    /\ \E prefix \in Prefixes :
        LET c0 == [Idle EXCEPT !.op = "list", !.bucket = object.bucket,
                     !.mount_path = object.mount_path, !.prefix = prefix]
        IN IF ~to_str_ok(prefix)
           THEN StartReturn(p, c0, "InvalidInput")
           ELSE /\ call' = Started(p, [c0 EXCEPT !.pc = "send"])
                /\ UNCHANGED <<lastWrite, complete>>
    /\ UNCHANGED <<env, store, files, dirs, pending>>

\* A send that hands out the entries of the response although the request
\* failed.
WalkdirSend_partial(p) ==
    /\ call[p].op = "list" /\ call[p].pc = "send"
    /\ \E ok \in BOOLEAN :
        LET c == [call[p] EXCEPT !.lists = @ + 1, !.remoteFailed = ~ok]
            contents == FirstPage(Listed(store, call[p].prefix))
            d == [c EXCEPT !.contents = contents,
                           !.entries = Collect(contents, 1, <<>>)]
        IN IF ok THEN Return(p, d, "Ok") ELSE Return(p, d, "S3")
    /\ UNCHANGED <<env, store, files, dirs, pending>>

\* Lines 319-339: one list_objects_v2 request; on success the entries are
\* collected from the response and returned.
WalkdirSend(p) ==
    /\ call[p].op = "list" /\ call[p].pc = "send"
    /\ \E ok \in BOOLEAN :
        LET c == [call[p] EXCEPT !.lists = @ + 1, !.remoteFailed = ~ok]
            contents == FirstPage(Listed(store, call[p].prefix))
        IN IF ok
           THEN Return(p, [c EXCEPT !.contents = contents,
                              !.entries = Collect(contents, 1, <<>>)], "Ok")
           ELSE Return(p, c, "S3")
    /\ UNCHANGED <<env, store, files, dirs, pending>>

\* -------------------------------------------------------- local I/O errors
\* The awaited filesystem operations followed by `?`: each may fail with an
\* io::Error, which is returned at once and leaves the disk as it is.
IoSites == {"hit", "create", "body", "seek", "remove", "write_all", "from_path"}

IoError(pc) == IF pc = "from_path" THEN "ByteStream" ELSE "Io"

IoFail(p) ==
    /\ call[p].pc \in IoSites
    /\ Return(p, call[p], IoError(call[p].pc))
    /\ UNCHANGED <<env, store, files, dirs, pending>>

\* ------------------------------------------------------------ behaviours
Next ==
    \/ \E p \in Procs : OpenS3Start(p)
    \/ \E p \in Procs : OpenS3Hit(p)
    \/ \E p \in Procs : OpenS3Create(p)
    \/ \E p \in Procs : OpenS3Fetch(p)
    \/ \E p \in Procs : OpenS3Chunk(p)
    \/ \E p \in Procs : OpenS3BodyEnd(p)
    \/ \E p \in Procs : OpenS3BodyErr(p)
    \/ \E p \in Procs : OpenS3Seek(p)
    \/ \E p \in Procs : OpenS3Remove(p)
    \/ \E p \in Procs : WriteS3Start(p)
    \/ \E p \in Procs : WriteS3Create(p)
    \/ \E p \in Procs : WriteS3WriteAll(p)
    \/ \E p \in Procs : WriteS3FromPath(p)
    \/ \E p \in Procs : WriteS3Put(p)
    \/ \E p \in Procs : WriteS3Remove(p)
    \/ \E p \in Procs : IoFail(p)
    \/ Flush
    \/ \E p \in Procs : WalkdirStart(p)
    \/ \E p \in Procs : WalkdirSend(p)

Spec == Init /\ [][Next]_vars

\* The body of the remote object in the concurrent behaviours: more than
\* one byte, so that it can arrive in several chunks.
RemoteBody == [i \in 1..MaxLen |-> 1]

\* Concurrent behaviours: two callers work on the same key of the same
\* bucket, no file is there yet, and the remote object keeps its body.
InitConc ==
    /\ windows = FALSE
    /\ object = [bucket |-> <<"b">>, mount_path |-> <<"m">>,
                 path |-> <<"a", "/", "b">>]
    /\ files = << >>
    /\ dirs = {<<RootDir>>}
    /\ pending = {}
    /\ call = [p \in Procs |-> Idle]
    /\ lastWrite = NoWrite
    /\ concurrent = TRUE
    /\ remote = [known |-> TRUE, body |-> RemoteBody]
    /\ store = <<>>
    /\ opts = NoOpts
    /\ builds = <<>>
    /\ complete = {}

NextConc ==
    \/ \E p \in Procs : OpenS3Start(p)
    \/ \E p \in Procs : OpenS3Hit(p)
    \/ \E p \in Procs : OpenS3Create(p)
    \/ \E p \in Procs : OpenS3Fetch(p)
    \/ \E p \in Procs : OpenS3Chunk(p)
    \/ \E p \in Procs : OpenS3BodyEnd(p)
    \/ \E p \in Procs : OpenS3BodyErr(p)
    \/ \E p \in Procs : OpenS3Seek(p)
    \/ \E p \in Procs : OpenS3Remove(p)
    \/ \E p \in Procs : WriteS3Start(p)
    \/ \E p \in Procs : WriteS3Create(p)
    \/ \E p \in Procs : WriteS3WriteAll(p)
    \/ \E p \in Procs : WriteS3FromPath(p)
    \/ \E p \in Procs : WriteS3Put(p)
    \/ \E p \in Procs : WriteS3Remove(p)
    \/ \E p \in Procs : IoFail(p)
    \/ Flush

SpecConc == InitConc /\ [][NextConc]_vars

\* Listing behaviours: the bucket holds up to MaxObjs objects, the local
\* mirror holds one file, and the callers list.
Rank(key) == CHOOSE n \in 1..Len(KeyOrder) : KeyOrder[n] = key

\* The remote store lists every key once, in ascending order of the keys.
Ascending(objs) ==
    \A i, j \in 1..Len(objs) :
        (i < j /\ objs[i].has_key /\ objs[j].has_key)
        => Rank(objs[i].key) < Rank(objs[j].key)

Buckets_of_objects ==
    {objs \in UNION {[1..n -> Objects] : n \in 0..MaxObjs} : Ascending(objs)}

InitList ==
    /\ windows = FALSE
    /\ object = [bucket |-> <<"b">>, mount_path |-> <<"m">>,
                 path |-> <<"a", "/", "b">>]
    /\ LET fp == Components(full_path(object.mount_path, object.bucket,
                                      object.path, windows), windows)
       IN /\ files = [q \in {fp} |-> Stale]
          /\ dirs = {<<RootDir>>} \cup DirsOf(parent(fp))
    /\ pending = {}
    /\ call = [p \in Procs |-> Idle]
    /\ lastWrite = NoWrite
    /\ concurrent = FALSE
    /\ remote = Unknown
    /\ store \in Buckets_of_objects
    /\ opts = NoOpts
    /\ builds = <<>>
    /\ complete = {Stale}

\* ------------------------------------------------------------ the builder
DEFAULT_DATA_STORE == <<"target", "/", "temp">>

\* The client argument of new: None, or Some of a client the caller made.
Clients == {"c1", "c2"}
ClientArgs == {"None"} \cup Clients
MountArgs == {<<"m">>, <<"d">>, DEFAULT_DATA_STORE}

\* Lines 63-78: the given client, or one loaded from the environment; the
\* given bucket; the default mount path; no forced download.
new(bucket, client) ==
    /\ ~opts.built
    /\ opts' = [built |-> TRUE,
                s3_client |-> IF client = "None" THEN "from_env" ELSE client,
                bucket |-> bucket,
                mount_path |-> DEFAULT_DATA_STORE,
                force_download |-> FALSE]
    /\ builds' = <<[op |-> "new", bucket |-> bucket, client |-> client]>>
    /\ UNCHANGED <<windows, object, concurrent, remote, files, dirs, pending,
                   call, lastWrite, store, complete>>

\* A setter that also puts the flag back to its default.
set_mount_path_resets(folder_path) ==
    /\ opts.built /\ Len(builds) < MaxBuilds
    /\ opts' = [opts EXCEPT !.mount_path = folder_path,
                            !.force_download = FALSE]
    /\ builds' = Append(builds, [op |-> "mount_path", value |-> folder_path])
    /\ UNCHANGED <<windows, object, concurrent, remote, files, dirs, pending,
                   call, lastWrite, store, complete>>

\* Lines 84-90: mount_path(self, folder_path).
set_mount_path(folder_path) ==
    /\ opts.built /\ Len(builds) < MaxBuilds
    /\ opts' = [opts EXCEPT !.mount_path = folder_path]
    /\ builds' = Append(builds, [op |-> "mount_path", value |-> folder_path])
    /\ UNCHANGED <<windows, object, concurrent, remote, files, dirs, pending,
                   call, lastWrite, store, complete>>

\* Lines 96-99: force_download(self, download).
set_force_download(download) ==
    /\ opts.built /\ Len(builds) < MaxBuilds
    /\ opts' = [opts EXCEPT !.force_download = download]
    /\ builds' = Append(builds, [op |-> "force_download", value |-> download])
    /\ UNCHANGED <<windows, object, concurrent, remote, files, dirs, pending,
                   call, lastWrite, store, complete>>

InitBuilder ==
    /\ windows = FALSE
    /\ object = [bucket |-> <<"b">>, mount_path |-> <<"m">>,
                 path |-> <<"a", "/", "b">>]
    /\ files = << >>
    /\ dirs = {<<RootDir>>}
    /\ pending = {}
    /\ call = [p \in Procs |-> Idle]
    /\ lastWrite = NoWrite
    /\ concurrent = FALSE
    /\ remote = Unknown
    /\ store = <<>>
    /\ opts = NoOpts
    /\ builds = <<>>
    /\ complete = {}

NextBuilder ==
    \/ \E bucket \in Buckets, client \in ClientArgs : new(bucket, client)
    \/ \E folder_path \in MountArgs : set_mount_path(folder_path)
    \/ \E download \in BOOLEAN : set_force_download(download)

SpecBuilder == InitBuilder /\ [][NextBuilder]_vars

NextList ==
    \/ \E p \in Procs : WalkdirStart(p)
    \/ \E p \in Procs : WalkdirSend(p)

SpecList == InitList /\ [][NextList]_vars

\* ---------------------------------------------------------------- claims
Returned(p) == call[p].pc = "done" /\ call[p].op # "none"

IsPrefix(a, b) == Len(a) <= Len(b) /\ SubSeq(b, 1, Len(a)) = a

OnDisk(p) == Target(call[p]) \in DOMAIN files

\* C1  Cache-hit purity: an open_s3 of a key whose local file exists, with
\* force_download = false, takes the cache-hit path, issues no remote call,
\* leaves the local file as it was, and returns a handle at offset 0 on the
\* existing content.
C1_CacheHitPurity ==
    \A p \in Procs :
        (call[p].op = "open" /\ call[p].existed /\ ~call[p].force_download
            /\ to_str_ok(call[p].path))
        => /\ call[p].hit
           /\ call[p].gets = 0 /\ call[p].puts = 0
           /\ OnDisk(p) /\ files[Target(call[p])] = call[p].pre
           /\ Returned(p) => /\ call[p].result \in {"Ok", "Io"}
                             /\ call[p].result = "Ok" => call[p].pos = 0

C1_Witness ==
    \E p \in Procs :
        /\ Returned(p) /\ call[p].op = "open" /\ call[p].hit
        /\ call[p].result = "Ok" /\ call[p].pre # <<>>

\* C2  Cache-miss fetch: a successful open_s3 of a key with no local file
\* leaves the local file holding exactly the chunks the fetch returned, in
\* arrival order, and the handle at offset 0.
C2_CacheMissFetch ==
    \A p \in Procs :
        (Returned(p) /\ call[p].op = "open" /\ call[p].result = "Ok"
            /\ ~call[p].existed)
        => /\ OnDisk(p)
           /\ files[Target(call[p])] = call[p].fetched
           /\ call[p].pos = 0

\* C3  Forced refresh: a successful open_s3 with force_download = true of a
\* key whose local file holds stale content leaves the file holding exactly
\* the fresh remote content.
C3_ForcedRefresh ==
    \A p \in Procs :
        (Returned(p) /\ call[p].op = "open" /\ call[p].result = "Ok"
            /\ call[p].existed /\ call[p].force_download)
        => /\ OnDisk(p)
           /\ files[Target(call[p])] = call[p].fetched

\* C4  Write-through round trip: after a successful write_s3(key, bytes),
\* every cache-hit open_s3 of the key yields exactly bytes; the write issued
\* one upload and no fetch, the opens no remote call.
C4_RoundTrip ==
    \A p \in Procs :
        /\ (Returned(p) /\ call[p].op = "write" /\ call[p].result = "Ok")
           => call[p].puts = 1 /\ call[p].gets = 0
        /\ (Returned(p) /\ call[p].op = "open" /\ call[p].result = "Ok"
               /\ call[p].hit /\ lastWrite.valid
               /\ lastWrite.path = Target(call[p]))
           => /\ call[p].gets = 0 /\ call[p].puts = 0
              /\ Content(Target(call[p])) = lastWrite.buf

\* C5 as claimed: once the fetch or upload request has failed, no file
\* exists at the mirror path when the call returns.
C5_NoFileAfterRemoteFailure ==
    \A p \in Procs :
        (Returned(p) /\ call[p].remoteFailed) => ~OnDisk(p)

\* C5  Failure cleanup, amended: once the fetch or upload request has
\* failed, the call returns either the S3 error, and then no file exists at
\* the mirror path, or the io::Error of a removal that failed.
C5_Cleanup ==
    \A p \in Procs :
        (Returned(p) /\ call[p].remoteFailed)
        => /\ call[p].result \in {"S3", "Io"}
           /\ call[p].result = "S3" => ~OnDisk(p)

C5_Witness ==
    \E p \in Procs :
        /\ Returned(p) /\ call[p].remoteFailed /\ call[p].result = "S3"
        /\ call[p].existed /\ call[p].op = "write" /\ ~OnDisk(p)

\* C6  Body-transfer failure cleanup: when the body stream fails during
\* open_s3, the local file is gone when the error is returned.
C6_BodyFailureCleanup ==
    \A p \in Procs :
        (Returned(p) /\ call[p].op = "open" /\ call[p].result = "ByteStream")
        => ~OnDisk(p)

\* C7  Write persists the buffer: after a successful write_s3(key, bytes)
\* the local file and the uploaded body both equal bytes.
C7_WritePersists ==
    \A p \in Procs :
        (Returned(p) /\ call[p].op = "write" /\ call[p].result = "Ok")
        => /\ Content(Target(call[p])) = call[p].buf
           /\ call[p].putBody = call[p].buf

\* C8  Invalid input is detected before any I/O: the step in which a call
\* fails with InvalidInput issues no remote call and changes neither the
\* files nor the directories on disk.
C8_InvalidInputBeforeIO ==
    [][\A p \in Procs :
          (call'[p].result = "InvalidInput" /\ call[p].result # "InvalidInput")
          => /\ files' = files /\ dirs' = dirs
             /\ call'[p].gets = 0 /\ call'[p].puts = 0]_vars

\* C9  Path normalization: the key a call sends to S3 is the path with every
\* backslash replaced by a forward slash, and the local file of a call is the
\* one the path resolves to in forward-slash style too.
C9_PathNormalization ==
    \A p \in Procs :
        (call[p].op # "none" /\ OnDisk(p))
        => /\ call[p].gets + call[p].puts > 0
              => /\ call[p].s3_data_path = replace(call[p].path)
                 /\ \A i \in 1..Len(call[p].s3_data_path) :
                       call[p].s3_data_path[i] # "\\"
           /\ Target(call[p]) =
                 Components(full_path(call[p].mount_path, call[p].bucket,
                                      replace(call[p].path), windows), windows)

\* C10  Mirror-path namespacing: the local file a call works on lies under
\* mount_path/bucket, and no configuration with the same mount_path and
\* another bucket resolves any key to it.
C10_Namespacing ==
    \A p \in Procs :
        (call[p].op # "none" /\ OnDisk(p))
        => /\ IsPrefix(Components(join(call[p].mount_path, call[p].bucket,
                                       windows), windows), Target(call[p]))
           /\ \A b \in Buckets \ {call[p].bucket}, k \in Keys :
                 Components(full_path(call[p].mount_path, b, k, windows),
                            windows) # Target(call[p])

\* ---------------------------------------------------------------- listing
ListedOk(p) ==
    Returned(p) /\ call[p].op = "list" /\ call[p].result = "Ok"

\* The objects of a response that have a key, in the order of the response.
Keyed(contents) == SelectSeq(contents, LAMBDA o : o.has_key)

\* C11  Folder flag: every entry of a successful walkdir whose key ends in
\* "/" is a folder of size 0, whatever size S3 reported, and every other
\* entry is no folder and has the size S3 reported for its key.
C11_FolderFlag ==
    \A p \in Procs :
        ListedOk(p)
        => \A i \in 1..Len(call[p].entries) :
              LET e == call[p].entries[i]
              IN IF ends_with_slash(e.path)
                 THEN e.folder /\ e.size = 0
                 ELSE /\ ~e.folder
                      /\ \E j \in 1..Len(call[p].contents) :
                            /\ call[p].contents[j].has_key
                            /\ call[p].contents[j].key = e.path
                            /\ call[p].contents[j].size = e.size

\* C12  Listing completeness: a successful walkdir returns an entry for every
\* object of the bucket under the prefix, however many there are (stated for
\* buckets whose objects all have a key).
C12_Completeness ==
    \A p \in Procs :
        (ListedOk(p) /\ \A i \in 1..Len(store) : store[i].has_key)
        => \A i \in 1..Len(store) :
              StartsWith(store[i].key, call[p].prefix)
              => \E j \in 1..Len(call[p].entries) :
                    call[p].entries[j].path = store[i].key

\* C16  Listing order and filtering: a successful walkdir returns one entry
\* for each object of the response that has a key, in the order of the
\* response, and nothing for an object without a key.
C16_OrderAndFiltering ==
    \A p \in Procs :
        ListedOk(p)
        => /\ Len(call[p].entries) = Len(Keyed(call[p].contents))
           /\ \A j \in 1..Len(call[p].entries) :
                 call[p].entries[j].path = Keyed(call[p].contents)[j].key

C16_Witness ==
    \E p \in Procs :
        /\ ListedOk(p)
        /\ Len(call[p].entries) = 2
        /\ Len(call[p].contents) > Len(call[p].entries)
        /\ call[p].entries[1].path # call[p].entries[2].path

\* C17  Listing is all-or-nothing: a walkdir whose listing request fails
\* returns the S3 error and no entries, and no step of a walkdir changes the
\* local files or directories.
C17_AllOrNothing ==
    /\ [](\A p \in Procs :
            (Returned(p) /\ call[p].op = "list" /\ call[p].remoteFailed)
            => call[p].result = "S3" /\ call[p].entries = <<>>)
    /\ [][\A p \in Procs :
            (call'[p] # call[p] /\ call'[p].op = "list")
            => /\ files' = files /\ dirs' = dirs
               /\ pending' = pending]_vars

C17_Witness ==
    \E p \in Procs :
        /\ Returned(p) /\ call[p].op = "list" /\ call[p].remoteFailed
        /\ \E i \in 1..Len(store) :
              store[i].has_key /\ StartsWith(store[i].key, call[p].prefix)
        /\ files # << >>

\* ------------------------------------------------------- errors and retries
\* C13  Remote errors are propagated as-is: a call whose get_object or
\* put_object request failed returns that S3 error, whether or not the
\* removal of the local file succeeds.
C13_RemoteErrorPropagated ==
    \A p \in Procs :
        (Returned(p) /\ call[p].op \in {"open", "write"}
            /\ call[p].remoteFailed)
        => call[p].result = "S3"

\* C14  No internal retries: a call of open_s3 sends at most one get_object
\* request, a call of walkdir at most one list_objects_v2 request, and a call
\* of write_s3 that passed the path check and its local I/O sends exactly one
\* put_object request, whether or not the file was there before; no call
\* sends a request of another operation, and a failed request is the only
\* request of its call.
C14_NoRetries ==
    \A p \in Procs :
        LET c == call[p]
        IN /\ c.gets <= 1 /\ c.puts <= 1 /\ c.lists <= 1
           /\ c.op = "open" => c.puts = 0 /\ c.lists = 0
           /\ c.op = "write" => c.gets = 0 /\ c.lists = 0
           /\ c.op = "list" => c.gets = 0 /\ c.puts = 0
           /\ c.remoteFailed => c.gets + c.puts + c.lists = 1
           /\ (Returned(p) /\ c.op = "write")
              => IF c.result \in {"Ok", "S3"} \/ c.remoteFailed
                 THEN c.puts = 1 ELSE c.puts = 0

C14_Witness ==
    \E p \in Procs :
        /\ Returned(p) /\ call[p].op = "write" /\ call[p].existed
        /\ call[p].remoteFailed /\ call[p].result = "S3"
        /\ call[p].puts = 1

\* ------------------------------------------------------------ the builder
\* The value the last call named op gave, or the default when there is none.
RECURSIVE LastSet(_, _, _)
LastSet(log, op, default) ==
    IF Len(log) = 0 THEN default
    ELSE IF log[Len(log)].op = op THEN log[Len(log)].value
    ELSE LastSet(SubSeq(log, 1, Len(log) - 1), op, default)

\* C15  Builder frame: new binds the given bucket and client with the
\* default mount path and force_download false; after any chain of builder
\* calls the bucket and the client are the ones new bound, and mount_path
\* and force_download each hold the value of the last call that set them, so
\* that each setter changes its own field only.
C15_BuilderFrame ==
    opts.built
    => /\ opts.bucket = builds[1].bucket
       /\ builds[1].client \in Clients => opts.s3_client = builds[1].client
       /\ builds[1].client = "None" => opts.s3_client \notin Clients
       /\ opts.mount_path = LastSet(builds, "mount_path", DEFAULT_DATA_STORE)
       /\ opts.force_download = LastSet(builds, "force_download", FALSE)

C15_Witness ==
    /\ opts.built /\ Len(builds) = 4
    /\ builds[2].op = "force_download" /\ builds[2].value
    /\ builds[3].op = "mount_path" /\ builds[3].value # DEFAULT_DATA_STORE
    /\ builds[4].op = "mount_path"
    /\ opts.mount_path = builds[4].value /\ opts.force_download

\* ------------------------------------------------------ cache coherence
\* No call is running and no written data is still on its way to the disk.
Quiescent ==
    /\ \A p \in Procs : ~Running(p)
    /\ pending = {}

\* C18  Cache coherence over sequential calls: once every call of a sequence
\* of open_s3 and write_s3 calls has returned, with Ok or with any error,
\* every file at a mirror path holds the complete content of a successful
\* fetch or of a successful write, never an empty placeholder or a part of a
\* download.
C18_CacheCoherence ==
    (~concurrent /\ Quiescent)
    => \A fp \in DOMAIN files : files[fp] \in complete

\* ---------------------------------------------------------- concurrency
\* C19  Concurrent opens of the same key: when two open_s3 calls without
\* force_download run concurrently on a key that has no local file, with
\* the remote object unchanged, every call that returns Ok returns a handle
\* whose content at the moment of return is the whole remote object.
C19_ConcurrentOpens ==
    (concurrent /\ \A q \in Procs : call[q].op \in {"none", "open"}
                                    /\ ~call[q].force_download)
    => \A p \in Procs :
          (Returned(p) /\ call[p].result = "Ok")
          => call[p].handle = remote.body

\* What a successful call wrote to the local file, in full.
Wrote(c) == IF c.op = "write" THEN c.buf ELSE c.fetched

\* C20  Last writer wins: when an open_s3 that downloads and a write_s3, or
\* two write_s3 calls, run concurrently on the same key and both return Ok,
\* the local file ends up holding the complete content one of the two calls
\* wrote, not a mixture of both (stated for contents of one length, and for
\* a download whose chunks were all written in full).
C20_LastWriterWins ==
    \A p, q \in Procs :
        (/\ concurrent /\ p # q /\ Quiescent
         /\ call[p].op = "write" /\ call[q].op \in {"open", "write"}
         /\ ~call[q].hit
         /\ call[p].overlap \/ call[q].overlap
         /\ call[p].result = "Ok" /\ call[q].result = "Ok"
         /\ Len(Wrote(call[p])) = Len(Wrote(call[q]))
         /\ call[q].op = "open" => call[q].wrote = Len(call[q].fetched))
        => Content(Target(call[p])) \in {Wrote(call[p]), Wrote(call[q])}

====
